---------------------------- MODULE Spec2Model ----------------------------
(***************************************************************************)
(* Model of ghidra_scripts/unflutter_apply.py: main() applies a metadata   *)
(* document to a Ghidra program (function materialization, struct          *)
(* synthesis, signatures, EOL comments, selective decompilation), and      *)
(* sanitize() turns a name into a file-name component.                     *)
(*                                                                         *)
(* Strings are sequences of one-character strings.  The Ghidra program     *)
(* (listing, function manager, symbol table, data type manager), the       *)
(* decompiler and the file system are the environment: each call the       *)
(* script makes may return normally or raise, chosen nondeterministically. *)
(***************************************************************************)
EXTENDS Integers, Sequences, FiniteSets, TLC

(***************************************************************************)
(* Bounds of the model.                                                    *)
(***************************************************************************)
MaxShortLen == 2      \* longest freely chosen input of sanitize
MaxOver == 1          \* how far a long input of sanitize exceeds the cut
MaxFunctions == 2     \* longest "functions" list
MaxFields == 2        \* longest "fields" list of a class
MaxThrFields == 2     \* longest "thr_fields" list
MaxFocus == 2         \* longest "focus_functions" list
MaxDecode == 1        \* most extra addresses one disassemble() call decodes

(***************************************************************************)
(* Program constants.                                                      *)
(***************************************************************************)
MaxNameLen == 120     \* sanitize: if len(s) > 120: s = s[:120]
NativePtr == 8        \* thr_size = max_off + 8; replaceAtOffset(off, ptr_type, 8, ..)
CompressedPtr == 4    \* if pointer_size == 4: field_type = Pointer32DataType
DefaultPtr == 8       \* meta.get("pointer_size", 8)

\* Python's None where a function (named by its entry address) is expected
None == 0 - 1

(***************************************************************************)
(* Characters.  str.isalnum() is Unicode-aware (json.load and Ghidra hand  *)
(* the script unicode strings): letters and digits outside ASCII count.    *)
(* "U+00E9" (e with acute) and "U+0663" (Arabic-Indic digit three) each    *)
(* stand for one such character.                                           *)
(***************************************************************************)
AsciiDigits == {"0", "1", "2", "3", "4", "5", "6", "7", "8", "9"}

AsciiLower == {"a", "b", "c", "d", "e", "f", "g", "h", "i", "j", "k", "l", "m",
               "n", "o", "p", "q", "r", "s", "t", "u", "v", "w", "x", "y", "z"}

AsciiUpper == {"A", "B", "C", "D", "E", "F", "G", "H", "I", "J", "K", "L", "M",
               "N", "O", "P", "Q", "R", "S", "T", "U", "V", "W", "X", "Y", "Z"}

NonAsciiAlnum == {"U+00E9", "U+0663"}

\* ch.isalnum()
IsAlnum(ch) == ch \in AsciiDigits \cup AsciiLower \cup AsciiUpper \cup NonAsciiAlnum

\* the characters of [A-Za-z0-9_.-]
Allowed == AsciiDigits \cup AsciiLower \cup AsciiUpper \cup {"_", "-", "."}

\* if ch.isalnum() or ch in ("_", "-", "."): out.append(ch) else: out.append("_")
SanitizeChar(ch) ==
    IF IsAlnum(ch) \/ ch \in {"_", "-", "."} THEN ch ELSE "_"

\* s[:n]
Take(s, n) == IF Len(s) > n THEN SubSeq(s, 1, n) ELSE s

\* sanitize(name)
sanitize(name) ==
    LET s == [k \in 1..Len(name) |-> SanitizeChar(name[k])]
    IN  IF Len(s) > MaxNameLen THEN Take(s, MaxNameLen) ELSE s


(***************************************************************************)
(* Addresses.  The metadata gives addresses as hex strings; the script     *)
(* parses them with int(s, 16) and adds the image base.                    *)
(***************************************************************************)
HexChars == <<"0", "1", "2", "3", "4", "5", "6", "7", "8", "9",
              "a", "b", "c", "d", "e", "f">>

HexCharsUpper == <<"0", "1", "2", "3", "4", "5", "6", "7", "8", "9",
                   "A", "B", "C", "D", "E", "F">>

HexDigit(ch) ==
    CHOOSE v \in 0..15 : HexChars[v + 1] = ch \/ HexCharsUpper[v + 1] = ch

RECURSIVE HexDigits(_)
HexDigits(s) ==
    IF s = <<>> THEN 0
    ELSE 16 * HexDigits(SubSeq(s, 1, Len(s) - 1)) + HexDigit(s[Len(s)])

\* int(s, 16): an optional "0x" or "0X" prefix, then hex digits
ParseHex(s) ==
    IF Len(s) >= 2 /\ s[1] = "0" /\ s[2] \in {"x", "X"}
    THEN HexDigits(SubSeq(s, 3, Len(s)))
    ELSE HexDigits(s)

\* addr_str.replace("0x", "")
RECURSIVE Replace0x(_)
Replace0x(s) ==
    IF Len(s) < 2 THEN s
    ELSE IF s[1] = "0" /\ s[2] = "x" THEN Replace0x(SubSeq(s, 3, Len(s)))
    ELSE <<s[1]>> \o Replace0x(Tail(s))

\* int(entry["addr"], 16) + image_base
Translate(rel, base) == rel + base

\* os.path.join(a, b)
PathJoin(a, b) == a \o <<"/">> \o b

\* all sequences over S of length lo..hi
SeqsOf(S, lo, hi) == UNION {[1..n -> S] : n \in lo..hi}

Range(s) == {s[k] : k \in DOMAIN s}

(***************************************************************************)
(* State.                                                                  *)
(***************************************************************************)
VARIABLES
    meta,             \* the loaded metadata document
    out_dir,          \* TRUE iff script argument 1 (the output directory) is given
    image_base,       \* currentProgram.getImageBase().getOffset()
    instrs,           \* listing: addresses that hold an instruction
    fns,              \* function manager: entry address -> [name, last]
    labels,           \* symbol table: labels created, [addr, name]
    dtm,              \* data type manager: struct name -> [size, fields], fields the
                      \* replaceAtOffset calls made on the struct, in order
    sigs,             \* entry address -> [ret, params] set by the script
    eol,              \* address -> EOL comment
    files,            \* paths (relative to out_dir) of the files written
    dirs,             \* sub-directories of out_dir that exist
    pc,               \* the phase main() is in
    i,                \* index of the next record of the phase's loop
    run,              \* 1 for the first invocation of the script, 2 for a re-run
    stats,            \* the stats dict
    disasm,           \* [ok, fail]: disasm_ok, disasm_fail
    structs,          \* [created, failed]: struct_created, struct_failed
    struct_by_owner,  \* class_name -> struct name registered for it
    sig,              \* [applied, failed, ret, this_typed]
    index,            \* the index list of Phase 3
    not_found,        \* not_found of Phase 3
    summary,          \* TRUE once the UNFLUTTER_APPLY summary line is printed
    outcome,          \* per FunctionRecord: what Phase 1b did with it in this run
    prev_outcome,     \* outcome of the previous run
    had_fn,           \* per FunctionRecord: a function was at its address at the end of the previous run
    writes,           \* replaceAtOffset calls made: [struct, k, off, len, type, name]
    calls,            \* what the script did, in order: [op, k, res, arg] per record handled
    san_in,           \* argument of a sanitize() call
    san_out           \* its result

vars == <<meta, out_dir, image_base, instrs, fns, labels, dtm, sigs, eol, files,
          dirs, pc, i, run, stats, disasm, structs, struct_by_owner, sig, index,
          not_found, summary, outcome, prev_outcome, had_fn, writes, calls,
          san_in, san_out>>

hostVars == <<instrs, fns, labels, dtm, sigs, eol, files, dirs>>

EmptyMeta ==
    [pointer_size |-> DefaultPtr, functions |-> <<>>, classes |-> <<>>,
     thr_fields |-> <<>>, comments |-> <<>>, focus_functions |-> <<>>]

\* stats = {...}
InitStats(m) ==
    [functions |-> Len(m.functions), renamed |-> 0, created |-> 0,
     create_failed |-> 0, labels |-> 0, comments |-> 0, comment_failed |-> 0,
     decompiled |-> 0, decompile_failed |-> 0]

NoFn == [a \in {} |-> [name |-> <<>>, last |-> 0]]

EmptyMap == [a \in {} |-> 0]

\* the program's locals as main() sets them before Phase 1a
ProgramStart(m) ==
    /\ stats = InitStats(m)
    /\ disasm = [ok |-> 0, fail |-> 0]
    /\ structs = [created |-> 0, failed |-> 0]
    /\ struct_by_owner = EmptyMap
    /\ sig = [applied |-> 0, failed |-> 0, ret |-> 0, this_typed |-> 0]
    /\ index = <<>>
    /\ not_found = 0
    /\ summary = FALSE
    /\ outcome = <<>>
    /\ prev_outcome = <<>>
    /\ had_fn = <<>>
    /\ writes = {}
    /\ calls = <<>>
    /\ i = 1
    /\ run = 1

\* a program in which the script has changed nothing yet
HostUntouched ==
    /\ labels = {}
    /\ dtm = EmptyMap
    /\ sigs = EmptyMap
    /\ eol = EmptyMap
    /\ files = {}
    /\ dirs = {}

NoSanitizeCall ==
    /\ san_in = <<>>
    /\ san_out = <<>>

Addr(entry) == Translate(ParseHex(entry.addr), image_base)

\* fm.getFunctionAt(addr)
GetFunctionAt(addr) == IF addr \in DOMAIN fns THEN addr ELSE None

\* fm.getFunctionContaining(addr)
GetFunctionContaining(addr) ==
    IF \E e \in DOMAIN fns : e <= addr /\ addr <= fns[e].last
    THEN CHOOSE e \in DOMAIN fns : e <= addr /\ addr <= fns[e].last
    ELSE None

\* the body the host gives a function created at addr: the instructions that
\* follow it, up to the next function
RECURSIVE BodyEnd(_, _, _)
BodyEnd(addr, ins, f) ==
    IF (addr + 1) \in ins /\ (addr + 1) \notin DOMAIN f
    THEN BodyEnd(addr + 1, ins, f)
    ELSE addr

(***************************************************************************)
(* Phase 1a: force disassembly at every function address.                  *)
(***************************************************************************)
\* what disassemble(addr) can do: raise, decode nothing, or decode an
\* instruction at addr and at the k addresses after it
DisasmOutcomes ==
    {[r |-> "raise", n |-> 0], [r |-> "none", n |-> 0]}
        \cup {[r |-> "ok", n |-> k] : k \in 0..MaxDecode}

Decoded(ins, addr, d) ==
    IF d.r = "ok" THEN ins \cup (addr..(addr + d.n)) ELSE ins

Phase1a ==
    /\ pc = "1a"
    /\ i <= Len(meta.functions)
    /\ LET addr == Addr(meta.functions[i])
       IN  IF addr \in instrs
           THEN /\ disasm' = [disasm EXCEPT !.ok = @ + 1]
                /\ instrs' = instrs
           ELSE \E d \in DisasmOutcomes :
                  /\ instrs' = Decoded(instrs, addr, d)
                  /\ disasm' = IF addr \in instrs'
                               THEN [disasm EXCEPT !.ok = @ + 1]
                               ELSE [disasm EXCEPT !.fail = @ + 1]
    /\ i' = i + 1
    /\ UNCHANGED <<meta, out_dir, image_base, fns, labels, dtm, sigs, eol, files,
                   dirs, pc, run, stats, structs, struct_by_owner, sig, index,
                   not_found, summary, outcome, prev_outcome, had_fn, writes,
                   calls, san_in, san_out>>

Phase1aEnd ==
    /\ pc = "1a"
    /\ i > Len(meta.functions)
    /\ pc' = "1b"
    /\ i' = 1
    /\ UNCHANGED <<meta, out_dir, image_base, hostVars, run, stats, disasm,
                   structs, struct_by_owner, sig, index, not_found, summary,
                   outcome, prev_outcome, had_fn, writes, calls, san_in, san_out>>

(***************************************************************************)
(* Phase 1b: create or rename the functions.                               *)
(***************************************************************************)
\* what createFunction(addr, name) can do
CreateResults == {"fn", "none", "raise"}

MaterializeOutcome_RenameFallsThrough(fn, rn, c1, d, c2, lb) ==
    IF fn # None /\ rn = "ok" THEN "renamed"
    ELSE IF c1 = "fn" THEN "created"
    ELSE IF d.r # "raise" /\ c2 = "fn" THEN "created"
    ELSE IF lb = "ok" THEN "label"
    ELSE "failed"

\* The path one record takes through the loop body, given what the host
\* calls do: fn = getFunctionAt, rn = setName, c1 = createFunction,
\* d = disassemble, c2 = the second createFunction, lb = createLabel.
MaterializeOutcome(fn, rn, c1, d, c2, lb) ==
    IF fn # None THEN (IF rn = "ok" THEN "renamed" ELSE "rename_failed")
    ELSE IF c1 = "fn" THEN "created"
    ELSE IF d.r # "raise" /\ c2 = "fn" THEN "created"
    ELSE IF lb = "ok" THEN "label"
    ELSE "failed"

\* the function manager after a function is created at addr
WithFunction(f, ins, addr, name) ==
    LET cut == [e \in DOMAIN f |->
                  IF e < addr /\ addr <= f[e].last
                  THEN [f[e] EXCEPT !.last = addr - 1] ELSE f[e]]
    IN  [e \in DOMAIN f \cup {addr} |->
           IF e = addr THEN [name |-> name, last |-> BodyEnd(addr, ins, f)]
           ELSE cut[e]]

\* stats[...] += 1 of the path taken
Counted(st, o) ==
    CASE o = "renamed" -> [st EXCEPT !.renamed = @ + 1]
      [] o = "created" -> [st EXCEPT !.created = @ + 1]
      [] o = "label"   -> [st EXCEPT !.labels = @ + 1]
      [] o = "failed"  -> [st EXCEPT !.create_failed = @ + 1]
      [] OTHER         -> st

\* no response: the call is not made on the path taken
NoCall == "-"

NoDisasm == [r |-> "-", n |-> 0]

\* one pass through the loop body, given the responses of the host calls made
Materialize(entry, addr, fn, rn, c1, d, c2, lb) ==
    LET ins2 == Decoded(instrs, addr, d)
        o == MaterializeOutcome(fn, rn, c1, d, c2, lb)
    IN  \* the host creates a function only on an instruction
        /\ c1 = "fn" => addr \in instrs
        /\ c2 = "fn" => addr \in ins2
        /\ instrs' = ins2
        /\ fns' = CASE o = "renamed" -> [fns EXCEPT ![addr].name = entry.name]
                    [] o = "created" -> WithFunction(fns, ins2, addr, entry.name)
                    [] OTHER -> fns
        /\ labels' = IF o = "label"
                     THEN labels \cup {[addr |-> addr, name |-> entry.name]}
                     ELSE labels
        /\ stats' = Counted(stats, o)
        /\ outcome' = Append(outcome, o)

Phase1b ==
    /\ pc = "1b"
    /\ i <= Len(meta.functions)
    /\ LET entry == meta.functions[i]
           addr == Addr(entry)
           fn == GetFunctionAt(addr)
       IN  IF fn # None
           THEN \E rn \in {"ok", "raise"} :
                  Materialize(entry, addr, fn, rn, NoCall, NoDisasm, NoCall, NoCall)
           ELSE \E c1 \in CreateResults :
                  IF c1 = "fn"
                  THEN Materialize(entry, addr, fn, NoCall, c1, NoDisasm, NoCall, NoCall)
                  ELSE \E d \in DisasmOutcomes :
                         IF d.r = "raise"
                         THEN \E lb \in {"ok", "raise"} :
                                Materialize(entry, addr, fn, NoCall, c1, d, NoCall, lb)
                         ELSE \E c2 \in CreateResults :
                                IF c2 = "fn"
                                THEN Materialize(entry, addr, fn, NoCall, c1, d, c2, NoCall)
                                ELSE \E lb \in {"ok", "raise"} :
                                       Materialize(entry, addr, fn, NoCall, c1, d, c2, lb)
    /\ i' = i + 1
    /\ UNCHANGED <<meta, out_dir, image_base, dtm, sigs, eol, files, dirs, pc,
                   run, disasm, structs, struct_by_owner, sig, index, not_found,
                   summary, prev_outcome, had_fn, writes, calls, san_in, san_out>>

\* the println and the verify loop after Phase 1b; they change nothing
Phase1bEnd ==
    /\ pc = "1b"
    /\ i > Len(meta.functions)
    /\ pc' = "1c"
    /\ i' = 1
    /\ UNCHANGED <<meta, out_dir, image_base, hostVars, run, stats, disasm,
                   structs, struct_by_owner, sig, index, not_found, summary,
                   outcome, prev_outcome, had_fn, writes, calls, san_in, san_out>>

\* The script is run again on the same document and the same program: main()
\* starts over with fresh locals, the program keeps what the first run did.
Rerun ==
    /\ pc = "1c"
    /\ run = 1
    /\ run' = 2
    /\ pc' = "1a"
    /\ i' = 1
    /\ stats' = InitStats(meta)
    /\ disasm' = [ok |-> 0, fail |-> 0]
    /\ prev_outcome' = outcome
    /\ had_fn' = [k \in 1..Len(meta.functions) |->
                    GetFunctionAt(Addr(meta.functions[k])) # None]
    /\ outcome' = <<>>
    /\ UNCHANGED <<meta, out_dir, image_base, hostVars, structs, struct_by_owner,
                   sig, index, not_found, summary, writes, calls, san_in, san_out>>

(***************************************************************************)
(* The Function Materializer: Phases 1a and 1b, run twice.                 *)
(***************************************************************************)
ImageBases == {16}

MatAddrs == {<<"0", "x", "1">>, <<"0", "x", "2">>}

MatRecords ==
    {[addr |-> <<"0", "x", "1">>, name |-> <<"f">>, owner |-> <<>>, param_count |-> 0],
     [addr |-> <<"0", "x", "2">>, name |-> <<"g", " ">>, owner |-> <<>>, param_count |-> 0],
     [addr |-> <<"0", "x", "1">>, name |-> <<"h">>, owner |-> <<>>, param_count |-> 0]}

\* the functions auto-analysis found: any set of decoded addresses
FoundFns(ins) ==
    {[e \in S |-> [name |-> <<"F", "U", "N">>, last |-> e]] : S \in SUBSET ins}

InitMat ==
    /\ meta \in {[EmptyMeta EXCEPT !.functions = f] :
                    f \in SeqsOf(MatRecords, 1, MaxFunctions)}
    /\ out_dir = FALSE
    /\ image_base \in ImageBases
    /\ instrs \in SUBSET {Translate(ParseHex(a), image_base) : a \in MatAddrs}
    /\ fns \in FoundFns(instrs)
    /\ HostUntouched
    /\ ProgramStart(meta)
    /\ pc = "1a"
    /\ NoSanitizeCall

NextMat == Phase1a \/ Phase1aEnd \/ Phase1b \/ Phase1bEnd \/ Rerun

SpecMat == InitMat /\ [][NextMat]_vars

(***************************************************************************)
(* Phase 1c: a struct type per Dart class.  Phase 1c2: the DartThread      *)
(* struct.                                                                 *)
(***************************************************************************)
\* field_type: Pointer32 with compressed pointers, else Pointer64
FieldType(pointer_size) ==
    IF pointer_size = CompressedPtr THEN "Pointer32" ELSE "Pointer64"

ptr_type_Compressed == FieldType(meta.pointer_size)

\* ptr_type = Pointer64DataType.dataType
ptr_type == "Pointer64"

FieldInBounds_NoWidth(offset, pointer_size, size) ==
    offset >= 0 /\ offset < size

\* if offset >= 0 and offset + pointer_size <= size
FieldInBounds(offset, pointer_size, size) ==
    offset >= 0 /\ offset + pointer_size <= size

\* "Dart_" + sanitize(cname)
StructName(cname) == <<"D", "a", "r", "t", "_">> \o sanitize(cname)

DartThread == <<"D", "a", "r", "t", "T", "h", "r", "e", "a", "d">>

\* the elements of seq whose index is in keep, in order
RECURSIVE Pick(_, _, _)
Pick(seq, keep, k) ==
    IF k > Len(seq) THEN <<>>
    ELSE (IF k \in keep THEN <<seq[k]>> ELSE <<>>) \o Pick(seq, keep, k + 1)

\* dtm.addDataType(dt, REPLACE_HANDLER)
AddDataType(types, name, dt) ==
    [n \in DOMAIN types \cup {name} |-> IF n = name THEN dt ELSE types[n]]

\* One pass through the loop body for class k.  The host calls in the try
\* block are: 0 the StructureDataType constructor, j in 1..n the
\* replaceAtOffset of field j, n + 1 addDataType; failAt is the call that
\* raises, n + 2 when none does.
Phase1c ==
    /\ pc = "1c"
    /\ i <= Len(meta.classes)
    /\ LET cls == meta.classes[i]
           cname == cls.class_name
           sname == StructName(cname)
           size == cls.instance_size
           fields == cls.fields
           n == Len(fields)
           ps == meta.pointer_size
       IN  IF size <= 0
           THEN /\ calls' = Append(calls, [op |-> "class", k |-> i, res |-> "skipped", arg |-> <<>>])
                /\ UNCHANGED <<dtm, struct_by_owner, structs, writes>>
           ELSE \E failAt \in 0..(n + 2) :
                  LET made == {j \in 1..n :
                                  /\ FieldInBounds(fields[j].byte_offset, ps, size)
                                  /\ j < failAt}
                      ws == [j \in 1..n |->
                               [off |-> fields[j].byte_offset, type |-> FieldType(ps),
                                len |-> ps, name |-> fields[j].name]]
                  IN  \* only a call that is made can raise
                      /\ failAt \in 1..n =>
                            FieldInBounds(fields[failAt].byte_offset, ps, size)
                      /\ writes' = writes \cup
                            {[struct |-> sname, k |-> i, j |-> j, off |-> ws[j].off,
                              type |-> ws[j].type, len |-> ws[j].len] : j \in made}
                      /\ IF failAt = n + 2
                         THEN /\ dtm' = AddDataType(dtm, sname,
                                            [size |-> size,
                                             fields |-> Pick(ws, made, 1)])
                              /\ struct_by_owner' =
                                    [c \in DOMAIN struct_by_owner \cup {cname} |->
                                       IF c = cname THEN sname ELSE struct_by_owner[c]]
                              /\ structs' = [structs EXCEPT !.created = @ + 1]
                              /\ calls' = Append(calls, [op |-> "class", k |-> i,
                                                         res |-> "created", arg |-> <<>>])
                         ELSE /\ structs' = [structs EXCEPT !.failed = @ + 1]
                              /\ calls' = Append(calls, [op |-> "class", k |-> i,
                                                         res |-> "failed", arg |-> <<>>])
                              /\ UNCHANGED <<dtm, struct_by_owner>>
    /\ i' = i + 1
    /\ UNCHANGED <<meta, out_dir, image_base, instrs, fns, labels, sigs, eol,
                   files, dirs, pc, run, stats, disasm, sig, index, not_found,
                   summary, outcome, prev_outcome, had_fn, san_in, san_out>>

\* the println after the loop, or the else branch when there is no class
Phase1cEnd ==
    /\ pc = "1c"
    /\ i > Len(meta.classes)
    /\ pc' = "1c2"
    /\ i' = 1
    /\ UNCHANGED <<meta, out_dir, image_base, hostVars, run, stats, disasm,
                   structs, struct_by_owner, sig, index, not_found, summary,
                   outcome, prev_outcome, had_fn, writes, calls, san_in, san_out>>

Max(S) == CHOOSE x \in S : \A y \in S : y <= x

\* thr_size = max_off + 8
ThrSize(max_off) == max_off + NativePtr

\* Phase 1c2.  The host calls in the try block are numbered as in Phase 1c.
Phase1c2 ==
    /\ pc = "1c2"
    /\ LET thr_fields == meta.thr_fields
           n == Len(thr_fields)
       IN  IF thr_fields = <<>>
           THEN UNCHANGED <<dtm, writes, calls>>
           ELSE \E failAt \in 0..(n + 2) :
                  LET max_off == Max({thr_fields[j].offset : j \in 1..n})
                      thr_size == ThrSize(max_off)
                      inb(j) == thr_fields[j].offset >= 0
                                   /\ thr_fields[j].offset + NativePtr <= thr_size
                      made == {j \in 1..n : inb(j) /\ j < failAt}
                      ws == [j \in 1..n |->
                               [off |-> thr_fields[j].offset, type |-> ptr_type,
                                len |-> NativePtr, name |-> thr_fields[j].name]]
                  IN  /\ failAt \in 1..n => inb(failAt)
                      /\ writes' = writes \cup
                            {[struct |-> DartThread, k |-> 0, j |-> j, off |-> ws[j].off,
                              type |-> ws[j].type, len |-> ws[j].len] : j \in made}
                      /\ dtm' = IF failAt = n + 2
                                THEN AddDataType(dtm, DartThread,
                                        [size |-> thr_size,
                                         fields |-> Pick(ws, made, 1)])
                                ELSE dtm
                      /\ calls' = Append(calls,
                            [op |-> "thread", k |-> 0,
                             res |-> IF failAt = n + 2 THEN "created" ELSE "failed",
                             arg |-> <<>>])
    /\ pc' = "1d"
    /\ i' = 1
    /\ UNCHANGED <<meta, out_dir, image_base, instrs, fns, labels, sigs, eol,
                   files, dirs, run, stats, disasm, structs, struct_by_owner, sig,
                   index, not_found, summary, outcome, prev_outcome, had_fn,
                   san_in, san_out>>

(***************************************************************************)
(* The Type Synthesizer: Phases 1c and 1c2.                                *)
(***************************************************************************)
PointerSizes == {CompressedPtr, DefaultPtr}

FieldOffsets == {0 - 4, 0, 8, 12, 14}

FieldRecords == {[name |-> <<"f">>, byte_offset |-> o] : o \in FieldOffsets}

InstanceSizes == {0, 8, 16}

\* the classes whose fields vary
ClassRecords ==
    {[class_name |-> <<"O", "b", "j">>, instance_size |-> sz, fields |-> fs] :
        sz \in InstanceSizes, fs \in SeqsOf(FieldRecords, 0, MaxFields)}

\* the classes that may follow one
OtherClasses ==
    {[class_name |-> <<"O", "b", "j">>, instance_size |-> 8,
      fields |-> <<[name |-> <<"g">>, byte_offset |-> 4]>>],
     [class_name |-> <<"P", "/">>, instance_size |-> 16,
      fields |-> <<[name |-> <<"g">>, byte_offset |-> 12]>>]}

ThrOffsets == {0 - 8, 0, 8, 12}

ThrFieldRecords == {[name |-> <<"t">>, offset |-> o] : o \in ThrOffsets}

FixedThrFields == <<[name |-> <<"t">>, offset |-> 8]>>

InitTypes ==
    /\ \/ /\ \E c \in ClassRecords, rest \in SeqsOf(OtherClasses, 0, 1),
                ps \in PointerSizes :
               meta = [EmptyMeta EXCEPT !.pointer_size = ps,
                                        !.classes = <<c>> \o rest,
                                        !.thr_fields = FixedThrFields]
       \/ /\ \E t \in SeqsOf(ThrFieldRecords, 0, MaxThrFields), ps \in PointerSizes :
               meta = [EmptyMeta EXCEPT !.pointer_size = ps, !.thr_fields = t]
    /\ out_dir = FALSE
    /\ image_base \in ImageBases
    /\ instrs = {}
    /\ fns = NoFn
    /\ HostUntouched
    /\ ProgramStart(meta)
    /\ pc = "1c"
    /\ NoSanitizeCall

NextTypes == Phase1c \/ Phase1cEnd \/ Phase1c2

SpecTypes == InitTypes /\ [][NextTypes]_vars

\* the result of Phase 1c for class k, once it is processed
ClassDone(k) == {c \in Range(calls) : c.op = "class" /\ c.k = k}

Placed(k, j) ==
    \E w \in writes :
        /\ w.k = k /\ w.j = j
        /\ w.off = meta.classes[k].fields[j].byte_offset
        /\ w.len = meta.pointer_size
        /\ w.type = (IF meta.pointer_size = 4 THEN "Pointer32" ELSE "Pointer64")

\* no replaceAtOffset call on a class struct covers a byte outside
\* [0, instance_size)
WritesInBounds ==
    \A w \in writes :
        w.k >= 1 => 0 <= w.off /\ w.off + w.len <= meta.classes[w.k].instance_size

ThreadDone == {c \in Range(calls) : c.op = "thread"}

ThrPlaced(j) ==
    \E w \in writes :
        /\ w.struct = DartThread /\ w.j = j
        /\ w.off = meta.thr_fields[j].offset
        /\ w.len = 8
        /\ w.type = "Pointer64"

ThrMaxOffset == Max({meta.thr_fields[j].offset : j \in DOMAIN meta.thr_fields})

Count(seq, v) == Cardinality({k \in DOMAIN seq : seq[k] = v})

\* C1: once Phase 1b has processed the function list, every FunctionRecord
\* has exactly one outcome among renamed, created, label-only and failed, its
\* counter was incremented by one, and so renamed + created + labels +
\* create_failed is the number of FunctionRecords, whatever the host's
\* rename, create, decode and label operations did.
C1_EveryRecordCounted ==
    pc = "1c" =>
        /\ \A k \in DOMAIN outcome :
              outcome[k] \in {"renamed", "created", "label", "failed"}
        /\ stats.renamed + stats.created + stats.labels + stats.create_failed
              = Len(meta.functions)

Param(name, kind, to) == [name |-> name, kind |-> kind, to |-> to]

\* "p%d" % k
PName(k) == <<"p", HexChars[k + 1]>>

ThisParam(owner, sbo) ==
    IF owner \in DOMAIN sbo
    THEN Param(<<"t", "h", "i", "s">>, "Pointer", sbo[owner])
    ELSE Param(<<"t", "h", "i", "s">>, ptr_type, <<>>)

BuildParams_ThisCounted(owner, param_count, sbo) ==
    IF owner # <<>>
    THEN <<ThisParam(owner, sbo)>>
            \o [k \in 1..(param_count - 1) |-> Param(PName(k - 1), ptr_type, <<>>)]
    ELSE [k \in 1..param_count |-> Param(PName(k - 1), ptr_type, <<>>)]

\* params = []; if owner: params.append(this); for i in range(pc): params.append(p<i>)
BuildParams(owner, param_count, sbo) ==
    (IF owner # <<>> THEN <<ThisParam(owner, sbo)>> ELSE <<>>)
        \o [k \in 1..param_count |-> Param(PName(k - 1), ptr_type, <<>>)]

\* One pass through the loop body.  rt: fn.setReturnType; pb: the ParameterImpl
\* constructors, which are outside any try block; rp: fn.replaceParameters.
Phase1d ==
    /\ pc = "1d"
    /\ i <= Len(meta.functions)
    /\ LET entry == meta.functions[i]
           fn == GetFunctionAt(Addr(entry))
           owner == entry.owner
           params == BuildParams(owner, entry.param_count, struct_by_owner)
           typed == IF owner # <<>> /\ owner \in DOMAIN struct_by_owner THEN 1 ELSE 0
           old == IF fn \in DOMAIN sigs THEN sigs[fn] ELSE [ret |-> "undefined", params |-> <<>>]
           Set(sg) == [e \in DOMAIN sigs \cup {fn} |-> IF e = fn THEN sg ELSE sigs[e]]
       IN  IF fn = None
           THEN /\ calls' = Append(calls, [op |-> "sig", k |-> i, res |-> "no_function",
                                           arg |-> <<>>])
                /\ pc' = pc
                /\ UNCHANGED <<sig, sigs>>
           ELSE \E rt \in {"ok", "raise"} :
                  LET ret == IF rt = "ok" THEN ptr_type ELSE old.ret
                      nret == IF rt = "ok" THEN 1 ELSE 0
                  IN  IF owner = <<>> /\ entry.param_count = 0
                      THEN \* if not params: continue
                           /\ sigs' = Set([old EXCEPT !.ret = ret])
                           /\ sig' = [sig EXCEPT !.ret = @ + nret]
                           /\ calls' = Append(calls, [op |-> "sig", k |-> i,
                                                      res |-> "skipped", arg |-> <<>>])
                           /\ pc' = pc
                      ELSE \E pb \in {"ok", "raise"} :
                             IF pb = "raise"
                             THEN \* the exception leaves main()
                                  /\ sigs' = Set([old EXCEPT !.ret = ret])
                                  /\ sig' = [sig EXCEPT !.ret = @ + nret,
                                                        !.this_typed = @ + typed]
                                  /\ calls' = Append(calls, [op |-> "sig", k |-> i,
                                                  res |-> "aborted", arg |-> <<>>])
                                  /\ pc' = "aborted"
                             ELSE \E rp \in {"ok", "raise"} :
                                    /\ sigs' = Set([ret |-> ret,
                                                    params |-> IF rp = "ok" THEN params
                                                               ELSE old.params])
                                    /\ sig' = [sig EXCEPT
                                                 !.ret = @ + nret,
                                                 !.this_typed = @ + typed,
                                                 !.applied = @ + (IF rp = "ok" THEN 1 ELSE 0),
                                                 !.failed = @ + (IF rp = "ok" THEN 0 ELSE 1)]
                                    /\ calls' = Append(calls,
                                          [op |-> "sig", k |-> i,
                                           res |-> IF rp = "ok" THEN "applied" ELSE "failed",
                                           arg |-> params])
                                    /\ pc' = pc
    /\ i' = i + 1
    /\ UNCHANGED <<meta, out_dir, image_base, instrs, fns, labels, dtm, eol, files,
                   dirs, run, stats, disasm, structs, struct_by_owner, index,
                   not_found, summary, outcome, prev_outcome, had_fn, writes,
                   san_in, san_out>>

Phase1dEnd ==
    /\ pc = "1d"
    /\ i > Len(meta.functions)
    /\ pc' = "2"
    /\ i' = 1
    /\ UNCHANGED <<meta, out_dir, image_base, hostVars, run, stats, disasm,
                   structs, struct_by_owner, sig, index, not_found, summary,
                   outcome, prev_outcome, had_fn, writes, calls, san_in, san_out>>

Phase2 ==
    /\ pc = "2"
    /\ i <= Len(meta.comments)
    /\ LET entry == meta.comments[i]
           addr == Addr(entry)
       IN  \E r \in {"ok", "raise"} :
             IF r = "ok"
             THEN /\ eol' = [a \in DOMAIN eol \cup {addr} |->
                               IF a = addr THEN entry.text ELSE eol[a]]
                  /\ stats' = [stats EXCEPT !.comments = @ + 1]
             ELSE /\ eol' = eol
                  /\ stats' = [stats EXCEPT !.comment_failed = @ + 1]
    /\ i' = i + 1
    /\ UNCHANGED <<meta, out_dir, image_base, instrs, fns, labels, dtm, sigs,
                   files, dirs, pc, run, disasm, structs, struct_by_owner, sig,
                   index, not_found, summary, outcome, prev_outcome, had_fn,
                   writes, calls, san_in, san_out>>

Phase2End ==
    /\ pc = "2"
    /\ i > Len(meta.comments)
    /\ pc' = "3"
    /\ i' = 1
    /\ UNCHANGED <<meta, out_dir, image_base, hostVars, run, stats, disasm,
                   structs, struct_by_owner, sig, index, not_found, summary,
                   outcome, prev_outcome, had_fn, writes, calls, san_in, san_out>>

(***************************************************************************)
(* The Signature Applier and the Annotation Writer: Phases 1d and 2.       *)
(***************************************************************************)
ParamCounts == {0, 1, 2}

OwnerA == <<"A", "<">>

SigRecords ==
    {[addr |-> <<"0", "x", "1">>, name |-> <<"F", "o", "o">>, owner |-> o,
      param_count |-> p] : o \in {<<>>, OwnerA}, p \in ParamCounts}
      \cup {[addr |-> <<"0", "x", "2">>, name |-> <<"b", "a", "r">>,
             owner |-> OwnerA, param_count |-> 1]}

FixedComments ==
    <<[addr |-> <<"0", "x", "1">>, text |-> <<"T", "H", "R">>],
      [addr |-> <<"0", "x", "1">>, text |-> <<"P", "P">>]>>

\* what Phases 1a to 1c can leave behind: a function at any of the
\* addresses, each counted as renamed and the others as labelled, and a
\* struct for the owner class or none
AfterMaterialization(m) ==
    /\ fns \in FoundFns(instrs)
    /\ labels = {}
    /\ stats = [InitStats(m) EXCEPT
                  !.renamed = Cardinality({k \in DOMAIN m.functions :
                                 Translate(ParseHex(m.functions[k].addr), image_base)
                                    \in DOMAIN fns}),
                  !.labels = Cardinality({k \in DOMAIN m.functions :
                                 Translate(ParseHex(m.functions[k].addr), image_base)
                                    \notin DOMAIN fns})]
    /\ outcome = [k \in DOMAIN m.functions |->
                    IF Translate(ParseHex(m.functions[k].addr), image_base) \in DOMAIN fns
                    THEN "renamed" ELSE "label"]

InitSig ==
    /\ meta \in {[EmptyMeta EXCEPT !.functions = f, !.comments = FixedComments] :
                    f \in SeqsOf(SigRecords, 1, MaxFunctions)}
    /\ out_dir = FALSE
    /\ image_base \in ImageBases
    /\ instrs \in SUBSET {Translate(ParseHex(a), image_base) : a \in MatAddrs}
    /\ AfterMaterialization(meta)
    /\ \E made \in BOOLEAN :
          /\ dtm = IF made
                   THEN AddDataType(EmptyMap, StructName(OwnerA),
                                    [size |-> 8, fields |-> <<>>])
                   ELSE EmptyMap
          /\ struct_by_owner = IF made
                               THEN [c \in {OwnerA} |-> StructName(OwnerA)]
                               ELSE EmptyMap
    /\ sigs = EmptyMap
    /\ eol = EmptyMap
    /\ files = {}
    /\ dirs = {}
    /\ disasm = [ok |-> Len(meta.functions), fail |-> 0]
    /\ structs = [created |-> Cardinality(DOMAIN dtm), failed |-> 0]
    /\ sig = [applied |-> 0, failed |-> 0, ret |-> 0, this_typed |-> 0]
    /\ index = <<>>
    /\ not_found = 0
    /\ summary = FALSE
    /\ prev_outcome = <<>>
    /\ had_fn = <<>>
    /\ writes = {}
    /\ calls = <<>>
    /\ i = 1
    /\ run = 1
    /\ pc = "1d"
    /\ NoSanitizeCall

NextSig == Phase1d \/ Phase1dEnd \/ Phase2 \/ Phase2End

SpecSig == InitSig /\ [][NextSig]_vars

SigDone(k) == {c \in Range(calls) : c.op = "sig" /\ c.k = k}

\* C5: for every processed FunctionRecord r whose address holds a function,
\* with owner o and param_count p, the parameter list handed to
\* replaceParameters is [this] (only when o is non-empty) followed by
\* p0..p(p-1), so it has p + (1 if o is non-empty else 0) parameters; when
\* that total is 0 replaceParameters is not called and neither sig_applied
\* nor sig_failed changes for r.
C5_AppliedParameters ==
    /\ \A k \in DOMAIN meta.functions : \A c \in SigDone(k) :
          LET r == meta.functions[k]
              this == IF r.owner # <<>> THEN 1 ELSE 0
              total == r.param_count + this
          IN  /\ c.res = "no_function" <=> GetFunctionAt(Addr(r)) = None
              /\ c.res = "skipped" <=> (GetFunctionAt(Addr(r)) # None /\ total = 0)
              /\ c.res \in {"applied", "failed"} =>
                    /\ Len(c.arg) = total
                    /\ this = 1 => c.arg[1].name = <<"t", "h", "i", "s">>
                    /\ \A n \in 1..r.param_count :
                          /\ c.arg[this + n].name = <<"p", HexChars[n]>>
                          /\ c.arg[this + n].kind = "Pointer64"
              \* the function has the list, unless a later record of the same
              \* address replaced it
              /\ (/\ c.res = "applied"
                  /\ ~\E d \in Range(calls) :
                        /\ d.op = "sig" /\ d.res = "applied" /\ d.k > k
                        /\ Addr(meta.functions[d.k]) = Addr(r))
                    => sigs[Addr(r)].params = c.arg
    /\ sig.applied = Cardinality({c \in Range(calls) : c.op = "sig" /\ c.res = "applied"})
    /\ sig.failed = Cardinality({c \in Range(calls) : c.op = "sig" /\ c.res = "failed"})

\* a method with one explicit parameter gets [this, p0], a function without
\* owner and with two parameters gets [p0, p1]
C5_Witness ==
    /\ pc = "2"
    /\ \E c \in Range(calls) :
          /\ c.op = "sig" /\ c.res = "applied"
          /\ meta.functions[c.k].owner # <<>>
          /\ meta.functions[c.k].param_count = 1
          /\ Len(c.arg) = 2
    /\ \E c \in Range(calls) :
          /\ c.op = "sig" /\ c.res = "applied"
          /\ meta.functions[c.k].owner = <<>>
          /\ meta.functions[c.k].param_count = 2
          /\ Len(c.arg) = 2 /\ c.arg[1].name = <<"p", "0">> /\ c.arg[2].name = <<"p", "1">>

(***************************************************************************)
(* Phase 3: selective decompilation, and the summary.                      *)
(***************************************************************************)
NoFile == <<>>      \* "file": None

NoReason == ""      \* an index entry without "reason"

Unknown == <<"u", "n", "k", "n", "o", "w", "n">>

IndexJson == <<"i", "n", "d", "e", "x", ".", "j", "s", "o", "n">>

\* owner_by_addr.get(addr_str, ""): the dict is keyed by the records' addr
\* strings, a later record overwrites an earlier one, records without owner
\* are left out
OwnerByAddr(m, addr_str) ==
    LET ks == {k \in DOMAIN m.functions :
                  m.functions[k].addr = addr_str /\ m.functions[k].owner # <<>>}
    IN  IF ks = {} THEN <<>> ELSE m.functions[Max(ks)].owner

\* fn = fm.getFunctionAt(addr); if fn is None: fn = fm.getFunctionContaining(addr)
Resolve(addr) ==
    IF GetFunctionAt(addr) # None THEN GetFunctionAt(addr)
    ELSE GetFunctionContaining(addr)

NoFunctionEntry_Incomplete(addr_str) ==
    [addr |-> addr_str, name |-> Unknown, file |-> NoFile, decompile_ok |-> FALSE,
     reason |-> "decompile_incomplete"]

\* the index entry of a focus address that resolves to no function
NoFunctionEntry(addr_str) ==
    [addr |-> addr_str, name |-> Unknown, file |-> NoFile, decompile_ok |-> FALSE,
     reason |-> "no_function"]

FailedEntry(addr_str, fn_name, reason) ==
    [addr |-> addr_str, name |-> fn_name, file |-> NoFile, decompile_ok |-> FALSE,
     reason |-> reason]

OkEntry(addr_str, fn_name, out_file) ==
    [addr |-> addr_str, name |-> fn_name, file |-> out_file, decompile_ok |-> TRUE,
     reason |-> NoReason]

\* safe_name + ".c"
SafeFile(addr_str, fn_name) ==
    Replace0x(addr_str) \o <<"_">> \o sanitize(fn_name) \o <<".", "c">>

\* out_file
OutFile(owner, addr_str, fn_name) ==
    IF owner # <<>> THEN PathJoin(sanitize(owner), SafeFile(addr_str, fn_name))
    ELSE SafeFile(addr_str, fn_name)

\* what ifc.decompileFunction can do: raise; return nothing; return a result
\* that is not completed, without or with an error message; return a
\* completed result with the decompiled function
DecompResults == {"raise", "none", "incomplete", "error", "ok"}

\* reason of an entry whose decompilation did not give a function
FailReason(dr) ==
    CASE dr = "raise" -> "exception"
      [] dr = "error" -> "error_message"
      [] OTHER -> "decompile_incomplete"

Phase3Begin ==
    /\ pc = "3"
    /\ pc' = IF out_dir /\ meta.focus_functions # <<>> THEN "3loop" ELSE "summary"
    /\ i' = 1
    /\ index' = <<>>
    /\ not_found' = 0
    /\ UNCHANGED <<meta, out_dir, image_base, hostVars, run, stats, disasm,
                   structs, struct_by_owner, sig, summary, outcome, prev_outcome,
                   had_fn, writes, calls, san_in, san_out>>

\* One pass through the loop body.  mk: os.makedirs(sub_dir); wr: open() and
\* cf.write(); neither is in a try block.
Phase3 ==
    /\ pc = "3loop"
    /\ i <= Len(meta.focus_functions)
    /\ LET addr_str == meta.focus_functions[i]
           addr == Translate(ParseHex(addr_str), image_base)
           fn == Resolve(addr)
           Done(res, f) == calls' = Append(calls, [op |-> "focus", k |-> i,
                                                  res |-> res, arg |-> f])
       IN  IF fn = None
           THEN /\ not_found' = not_found + 1
                /\ index' = Append(index, NoFunctionEntry(addr_str))
                /\ stats' = [stats EXCEPT !.decompile_failed = @ + 1]
                /\ Done("no_function", NoFile)
                /\ pc' = pc
                /\ UNCHANGED <<files, dirs>>
           ELSE \E dr \in DecompResults :
                  LET fn_name == fns[fn].name
                      owner == OwnerByAddr(meta, addr_str)
                      out_file == OutFile(owner, addr_str, fn_name)
                  IN  /\ not_found' = not_found
                      /\ IF dr # "ok"
                         THEN /\ index' = Append(index,
                                     FailedEntry(addr_str, fn_name, FailReason(dr)))
                              /\ stats' = [stats EXCEPT !.decompile_failed = @ + 1]
                              /\ Done(FailReason(dr), NoFile)
                              /\ pc' = pc
                              /\ UNCHANGED <<files, dirs>>
                         ELSE \E mk \in {"ok", "raise"}, wr \in {"ok", "raise"} :
                                \* makedirs is called for a new sub-directory only
                                /\ (owner = <<>> \/ sanitize(owner) \in dirs) => mk = "ok"
                                /\ mk = "raise" => wr = "raise"
                                /\ dirs' = IF owner # <<>> /\ mk = "ok"
                                           THEN dirs \cup {sanitize(owner)} ELSE dirs
                                /\ IF wr = "ok"
                                   THEN /\ files' = files \cup {out_file}
                                        /\ index' = Append(index,
                                               OkEntry(addr_str, fn_name, out_file))
                                        /\ stats' = [stats EXCEPT !.decompiled = @ + 1]
                                        /\ Done("ok", out_file)
                                        /\ pc' = pc
                                   ELSE \* the exception leaves main()
                                        /\ Done("aborted", NoFile)
                                        /\ pc' = "aborted"
                                        /\ UNCHANGED <<files, index, stats>>
    /\ i' = i + 1
    /\ UNCHANGED <<meta, out_dir, image_base, instrs, fns, labels, dtm, sigs, eol,
                   run, disasm, structs, struct_by_owner, sig, summary, outcome,
                   prev_outcome, had_fn, writes, san_in, san_out>>

\* ifc.dispose(), then index.json is written
Phase3End ==
    /\ pc = "3loop"
    /\ i > Len(meta.focus_functions)
    /\ files' = files \cup {IndexJson}
    /\ calls' = Append(calls, [op |-> "index", k |-> Len(index), res |-> "written",
                               arg |-> IndexJson])
    /\ pc' = "summary"
    /\ UNCHANGED <<meta, out_dir, image_base, instrs, fns, labels, dtm, sigs, eol,
                   dirs, i, run, stats, disasm, structs, struct_by_owner, sig,
                   index, not_found, summary, outcome, prev_outcome, had_fn,
                   writes, san_in, san_out>>

\* println("UNFLUTTER_APPLY: ...")
Summary ==
    /\ pc = "summary"
    /\ summary' = TRUE
    /\ pc' = "done"
    /\ UNCHANGED <<meta, out_dir, image_base, hostVars, i, run, stats, disasm,
                   structs, struct_by_owner, sig, index, not_found, outcome,
                   prev_outcome, had_fn, writes, calls, san_in, san_out>>

(***************************************************************************)
(* The Selective Decompiler: Phase 3 and the summary.                      *)
(***************************************************************************)
OwnerB == <<"B">>

NameF == <<"f", ":">>

NameG == <<"g">>

DecRecords ==
    {[addr |-> <<"0", "x", "1">>, name |-> NameF, owner |-> OwnerA, param_count |-> 0],
     [addr |-> <<"0", "x", "1">>, name |-> NameF, owner |-> <<>>, param_count |-> 0],
     [addr |-> <<"0", "x", "2">>, name |-> NameG, owner |-> OwnerB, param_count |-> 0]}

FocusAddrs == {<<"0", "x", "1">>, <<"0", "x", "2">>}

\* the functions the program can hold at the two addresses: none, one at the
\* first address that ends there or covers the second, one at the second, both
DecFns(base) ==
    LET a == Translate(1, base)
        b == Translate(2, base)
    IN  {NoFn,
         [e \in {a} |-> [name |-> NameF, last |-> a]],
         [e \in {a} |-> [name |-> NameF, last |-> b]],
         [e \in {b} |-> [name |-> NameG, last |-> b]],
         [e \in {a, b} |-> [name |-> IF e = a THEN NameF ELSE NameG, last |-> e]]}

InitDecomp ==
    /\ meta \in {[EmptyMeta EXCEPT !.functions = f, !.focus_functions = fo] :
                    f \in SeqsOf(DecRecords, 1, MaxFunctions),
                    fo \in SeqsOf(FocusAddrs, 0, MaxFocus)}
    /\ out_dir \in BOOLEAN
    /\ image_base \in ImageBases
    /\ fns \in DecFns(image_base)
    /\ instrs = UNION {e..fns[e].last : e \in DOMAIN fns}
    /\ labels = {}
    /\ dtm = EmptyMap
    /\ sigs = EmptyMap
    /\ eol = EmptyMap
    /\ files = {}
    /\ dirs \in {{}, {sanitize(OwnerA)}}
    /\ stats = [InitStats(meta) EXCEPT
                  !.renamed = Cardinality({k \in DOMAIN meta.functions :
                                 Addr(meta.functions[k]) \in DOMAIN fns}),
                  !.labels = Cardinality({k \in DOMAIN meta.functions :
                                 Addr(meta.functions[k]) \notin DOMAIN fns})]
    /\ outcome = [k \in DOMAIN meta.functions |->
                    IF Addr(meta.functions[k]) \in DOMAIN fns
                    THEN "renamed" ELSE "label"]
    /\ disasm = [ok |-> Len(meta.functions), fail |-> 0]
    /\ structs = [created |-> 0, failed |-> 0]
    /\ struct_by_owner = EmptyMap
    /\ sig = [applied |-> 0, failed |-> 0, ret |-> 0, this_typed |-> 0]
    /\ index = <<>>
    /\ not_found = 0
    /\ summary = FALSE
    /\ prev_outcome = <<>>
    /\ had_fn = <<>>
    /\ writes = {}
    /\ calls = <<>>
    /\ i = 1
    /\ run = 1
    /\ pc = "3"
    /\ NoSanitizeCall

NextDecomp == Phase3Begin \/ Phase3 \/ Phase3End \/ Summary

SpecDecomp == InitDecomp /\ [][NextDecomp]_vars

FocusAddr(k) == ParseHex(meta.focus_functions[k]) + image_base

\* the function focus address k resolves to: the entries of the functions
\* that start at it, else of those that contain it
ResolvedTo(k) ==
    IF FocusAddr(k) \in DOMAIN fns THEN {FocusAddr(k)}
    ELSE {e \in DOMAIN fns : e <= FocusAddr(k) /\ FocusAddr(k) <= fns[e].last}

\* the owners the metadata gives the function at entry e
OwnersOf(e) ==
    {meta.functions[k].owner : k \in {n \in DOMAIN meta.functions :
        /\ ParseHex(meta.functions[n].addr) + image_base = e
        /\ meta.functions[n].owner # <<>>}}

FocusDone(k) == {c \in Range(calls) : c.op = "focus" /\ c.k = k}

\* C3: a failure of a single operation is caught and never aborts the run:
\* main() is never left by an exception, and a run that is over has handled
\* every focus address, written the index and printed the summary.
C3_FailureIsolated ==
    /\ pc # "aborted"
    /\ pc = "done" =>
          /\ summary
          /\ (out_dir /\ meta.focus_functions # <<>>) =>
                /\ Len(index) = Len(meta.focus_functions)
                /\ IndexJson \in files

\* C6: for every focus address whose decompilation succeeds, if the function
\* it resolved to (by exact match or as the containing function) has a known
\* owner, the file is written under the sub-directory sanitize(owner) and the
\* index entry's file is sanitize(owner)/<addr>_<sanitized name>.c;
\* otherwise the file is at the output root.
C6_FileUnderOwner ==
    \A k \in DOMAIN index :
        index[k].decompile_ok =>
            \A e \in ResolvedTo(k) :
                LET base == Replace0x(meta.focus_functions[k]) \o <<"_">>
                               \o sanitize(fns[e].name) \o <<".", "c">>
                IN  /\ index[k].file \in files
                    /\ IF OwnersOf(e) # {}
                       THEN \E o \in OwnersOf(e) :
                               /\ index[k].file = sanitize(o) \o <<"/">> \o base
                               /\ sanitize(o) \in dirs
                       ELSE index[k].file = base

\* C7: with an output directory and a non-empty focus list, the Selective
\* Decompiler ends by writing exactly one index, after every focus address
\* has been processed, and the index holds one entry {name, file or null,
\* ok, reason if failed} per focus address, whatever the per-address
\* outcomes are.
C7_OneIndexForAll ==
    (pc \in {"done", "aborted"} /\ out_dir /\ meta.focus_functions # <<>>) =>
        /\ Cardinality({n \in DOMAIN calls : calls[n].op = "index"}) = 1
        /\ \A n \in DOMAIN calls :
              calls[n].op = "index" =>
                 /\ n = Len(calls)
                 /\ calls[n].k = Len(meta.focus_functions)
        /\ IndexJson \in files
        /\ Len(index) = Len(meta.focus_functions)
        /\ \A k \in DOMAIN index :
              /\ index[k].addr = meta.focus_functions[k]
              /\ index[k].decompile_ok => index[k].file # NoFile
              /\ ~index[k].decompile_ok =>
                    index[k].file = NoFile /\ index[k].reason # NoReason

\* C8: for every focus address that resolves to no function, neither by
\* exact match nor as a containing function, the index entry is {ok: false,
\* file: null, reason: "no_function"}, decompile_failed is incremented by
\* one and decompiled is not, the decompiler is not called and no file is
\* written for the address.
C8_NoFunction ==
    /\ \A k \in DOMAIN meta.focus_functions : \A c \in FocusDone(k) :
          (~\E e \in DOMAIN fns : e <= FocusAddr(k) /\ FocusAddr(k) <= fns[e].last)
             => /\ c.res = "no_function"
                /\ c.arg = <<>>
                /\ index[k].addr = meta.focus_functions[k]
                /\ ~index[k].decompile_ok
                /\ index[k].file = <<>>
                /\ index[k].reason = "no_function"
    /\ stats.decompile_failed = Cardinality({k \in DOMAIN index : ~index[k].decompile_ok})
    /\ stats.decompiled = Cardinality({k \in DOMAIN index : index[k].decompile_ok})
    /\ not_found = Cardinality({c \in Range(calls) :
                                   c.op = "focus" /\ c.res = "no_function"})
    /\ files \subseteq {index[k].file : k \in {n \in DOMAIN index : index[n].decompile_ok}}
                          \cup {IndexJson}

\* a finished run whose first focus address resolved to no function and
\* whose second was decompiled
C8_Witness ==
    /\ pc = "done"
    /\ Len(index) = 2
    /\ ResolvedTo(1) = {}
    /\ index[1].reason = "no_function"
    /\ stats.decompile_failed = 1
    /\ stats.decompiled = 1
    /\ index[2].decompile_ok

(***************************************************************************)
(* sanitize() on its own.                                                  *)
(***************************************************************************)
SanAlphabet == {"a", "Z", "7", "_", "-", ".", "/", " ", "U+00E9", "U+0663"}

\* short names, and names around the 120-character cut made of two
\* alternating characters
SanInputs ==
    SeqsOf(SanAlphabet, 0, MaxShortLen)
        \cup {[k \in 1..n |-> IF k % 2 = 1 THEN c1 ELSE c2] :
                 n \in (MaxNameLen - 1)..(MaxNameLen + MaxOver),
                 c1 \in SanAlphabet, c2 \in SanAlphabet}

SanitizeCall ==
    /\ pc = "sanitize"
    /\ san_out' = sanitize(san_in)
    /\ pc' = "sanitized"
    /\ UNCHANGED <<meta, out_dir, image_base, hostVars, i, run, stats, disasm,
                   structs, struct_by_owner, sig, index, not_found, summary,
                   outcome, prev_outcome, had_fn, writes, calls, san_in>>

InitSan ==
    /\ meta = EmptyMeta
    /\ out_dir = FALSE
    /\ image_base \in ImageBases
    /\ instrs = {}
    /\ fns = NoFn
    /\ HostUntouched
    /\ ProgramStart(meta)
    /\ pc = "sanitize"
    /\ san_in \in SanInputs
    /\ san_out = <<>>

NextSan == SanitizeCall

SpecSan == InitSan /\ [][NextSan]_vars

\* C9: for every input, sanitize(name) holds only characters of
\* [A-Za-z0-9_.-], is at most 120 long, and is the first 120 characters of
\* the input with each allowed character kept and each other character
\* replaced by "_".
C9_SanitizeAsciiOnly ==
    pc = "sanitized" =>
        /\ \A k \in DOMAIN san_out : san_out[k] \in Allowed
        /\ Len(san_out) <= 120
        /\ Len(san_out) = (IF Len(san_in) > 120 THEN 120 ELSE Len(san_in))
        /\ \A k \in DOMAIN san_out :
              san_out[k] = (IF san_in[k] \in Allowed THEN san_in[k] ELSE "_")

=============================================================================
